---- MODULE Spec2Model ----
(***************************************************************************)
(* Model of the Zip operation of irrisdev/go-zip.  The repository holds    *)
(* two variants of Zip: src/zipper.go ("zipper") and src/unnamed/part_000  *)
(* ("part000").  A path is a sequence of one-character strings; the        *)
(* suffix ".zip" is the single token ".zip" (the alphabet of the modelled  *)
(* inputs holds none of the letters z, i, p, so the token is unambiguous). *)
(***************************************************************************)
EXTENDS Integers, Sequences, FiniteSets, TLC

\* ------------------------------------------------------------------------
\* Bounds
\* ------------------------------------------------------------------------
MaxLen == 5

Chars == {"/", ".", "a"}

\* ------------------------------------------------------------------------
\* path/filepath (Unix) as used by Zip
\* ------------------------------------------------------------------------
IsSep(c) == c = "/"

RECURSIVE Backtrack(_, _, _)
Backtrack(out, w, dotdot) ==
  IF w > dotdot /\ ~IsSep(out[w + 1])
    THEN Backtrack(out, w - 1, dotdot)
    ELSE SubSeq(out, 1, w)

RECURSIVE ElemEnd(_, _)
ElemEnd(path, r) ==
  IF r <= Len(path) /\ ~IsSep(path[r]) THEN ElemEnd(path, r + 1) ELSE r

RECURSIVE CleanLoop(_, _, _, _)
CleanLoop(path, r, out, dotdot) ==
  LET n == Len(path)
      rooted == IsSep(path[1])
  IN IF r > n THEN out
     ELSE IF IsSep(path[r]) THEN CleanLoop(path, r + 1, out, dotdot)
     ELSE IF path[r] = "." /\ (r = n \/ IsSep(path[r + 1]))
       THEN CleanLoop(path, r + 1, out, dotdot)
     ELSE IF path[r] = "." /\ path[r + 1] = "." /\ (r + 1 = n \/ IsSep(path[r + 2]))
       THEN IF Len(out) > dotdot
              THEN CleanLoop(path, r + 2, Backtrack(out, Len(out) - 1, dotdot), dotdot)
            ELSE IF ~rooted
              THEN LET o2 == (IF Len(out) > 0 THEN Append(out, "/") ELSE out) \o <<".", ".">>
                   IN CleanLoop(path, r + 2, o2, Len(o2))
            ELSE CleanLoop(path, r + 2, out, dotdot)
     ELSE LET o1 == IF (rooted /\ Len(out) # 1) \/ (~rooted /\ Len(out) # 0)
                      THEN Append(out, "/") ELSE out
              e == ElemEnd(path, r)
          IN CleanLoop(path, e, o1 \o SubSeq(path, r, e - 1), dotdot)

Clean(path) ==
  IF path = <<>> THEN <<".">>
  ELSE LET rooted == IsSep(path[1])
           res == IF rooted THEN CleanLoop(path, 2, <<"/">>, 1)
                            ELSE CleanLoop(path, 1, <<>>, 0)
       IN IF res = <<>> THEN <<".">> ELSE res

RECURSIVE StripTrailingSeps(_)
StripTrailingSeps(path) ==
  IF Len(path) > 0 /\ IsSep(path[Len(path)])
    THEN StripTrailingSeps(SubSeq(path, 1, Len(path) - 1))
    ELSE path

RECURSIVE LastSep(_, _)
LastSep(path, i) ==
  IF i >= 1 /\ ~IsSep(path[i]) THEN LastSep(path, i - 1) ELSE i

Base(path) ==
  IF path = <<>> THEN <<".">>
  ELSE LET p == StripTrailingSeps(path)
           i == LastSep(p, Len(p))
           q == IF i >= 1 THEN SubSeq(p, i + 1, Len(p)) ELSE p
       IN IF q = <<>> THEN <<"/">> ELSE q

RECURSIVE CountSeps(_)
CountSeps(s) ==
  IF s = <<>> THEN 0 ELSE (IF IsSep(Head(s)) THEN 1 ELSE 0) + CountSeps(Tail(s))

RECURSIVE DotDots(_)
DotDots(k) == IF k = 0 THEN <<>> ELSE <<"/", ".", ".">> \o DotDots(k - 1)

\* the element-matching loop of filepath.Rel: <<b0, bi, t0, ti>> (0-based)
RECURSIVE RelLoop(_, _, _, _, _, _)
RelLoop(base, targ, b0, bi, t0, ti) ==
  IF ~(bi < Len(base) /\ ti < Len(targ)) THEN <<b0, bi, t0, ti>>
  ELSE LET bj == ElemEnd(base, bi + 1) - 1
           tj == ElemEnd(targ, ti + 1) - 1
       IN IF SubSeq(targ, t0 + 1, tj) # SubSeq(base, b0 + 1, bj)
            THEN <<b0, bj, t0, tj>>
            ELSE LET bk == IF bj < Len(base) THEN bj + 1 ELSE bj
                     tk == IF tj < Len(targ) THEN tj + 1 ELSE tj
                 IN RelLoop(base, targ, bk, bk, tk, tk)

Rel(basepath, targpath) ==
  LET base0 == Clean(basepath)
      targ == Clean(targpath)
  IN IF targ = base0 THEN [ok |-> TRUE, path |-> <<".">>]
     ELSE LET base == IF base0 = <<".">> THEN <<>> ELSE base0
              baseSlashed == Len(base) > 0 /\ IsSep(base[1])
              targSlashed == Len(targ) > 0 /\ IsSep(targ[1])
          IN IF baseSlashed # targSlashed THEN [ok |-> FALSE, path |-> <<>>]
             ELSE LET x == RelLoop(base, targ, 0, 0, 0, 0)
                      b0 == x[1]
                      bi == x[2]
                      t0 == x[3]
                      bl == Len(base)
                      tl == Len(targ)
                  IN IF SubSeq(base, b0 + 1, bi) = <<".", ".">>
                       THEN [ok |-> FALSE, path |-> <<>>]
                     ELSE IF b0 # bl
                       THEN [ok |-> TRUE,
                             path |-> <<".", ".">> \o DotDots(CountSeps(SubSeq(base, b0 + 1, bl)))
                                      \o (IF t0 # tl THEN <<"/">> \o SubSeq(targ, t0 + 1, tl) ELSE <<>>)]
                     ELSE [ok |-> TRUE, path |-> SubSeq(targ, t0 + 1, tl)]

\* filepath.Join of a directory and one name, as WalkDir builds child paths
Join(dir, name) == Clean(dir \o <<"/">> \o name)

\* ------------------------------------------------------------------------
\* File system: absolute cleaned path -> node.  The content of a file is a
\* record: raw bytes, or the entries of a zip archive and whether its
\* central directory has been written (sealed).
\* ------------------------------------------------------------------------
EmptyContent == [raw |-> <<>>, entries |-> <<>>, sealed |-> FALSE, tail |-> 0]

Raw(bytes) == [raw |-> bytes, entries |-> <<>>, sealed |-> FALSE, tail |-> 0]

Dir == [kind |-> "dir", data |-> EmptyContent]

File(bytes) == [kind |-> "file", data |-> Raw(bytes)]

\* a non-directory that is not a regular file (a symbolic link to a file)
Link(bytes) == [kind |-> "link", data |-> Raw(bytes)]

\* the names a directory entry can have, in the lexical order of os.ReadDir
Names == << <<".zip">>, <<"a">>, <<"a", ".zip">>, <<"b">> >>

Root == <<"/">>

TreeTwoFiles ==
  (Root :> Dir) @@ (<<"/", "a">> :> Dir)
  @@ (<<"/", "a", "/", "a">> :> File(<<1>>)) @@ (<<"/", "a", "/", "b">> :> File(<<2>>))

TreeNested ==
  (Root :> Dir) @@ (<<"/", "a">> :> Dir)
  @@ (<<"/", "a", "/", "a">> :> File(<<1>>)) @@ (<<"/", "a", "/", "b">> :> Dir)
  @@ (<<"/", "a", "/", "b", "/", "a">> :> File(<<2>>))

TreeSingle ==
  (Root :> Dir) @@ (<<"/", "a">> :> File(<<1>>)) @@ (<<"/", "b">> :> Dir)

TreeEmpty ==
  (Root :> Dir) @@ (<<"/", "a">> :> Dir) @@ (<<"/", "a", "/", "b">> :> Dir)

\* a file already exists at the destination name, in / and in /a
TreeOld ==
  (Root :> Dir) @@ (<<"/", "a">> :> Dir) @@ (<<"/", "a", ".zip">> :> File(<<2>>))
  @@ (<<"/", "a", "/", "b">> :> File(<<1>>)) @@ (<<"/", "a", "/", "a", ".zip">> :> File(<<2>>))

TreeLink ==
  (Root :> Dir) @@ (<<"/", "a">> :> Dir) @@ (<<"/", "a", "/", "a">> :> Link(<<1>>))

\* a directory already exists at the destination name
TreeDirZip ==
  (Root :> Dir) @@ (<<"/", "a">> :> File(<<1>>)) @@ (<<"/", "a", ".zip">> :> Dir)

Trees == {TreeTwoFiles, TreeNested, TreeSingle, TreeEmpty, TreeOld, TreeLink, TreeDirZip}

WorkDirs == {Root, <<"/", "a">>, <<"/", "b">>}

\* how the operating system resolves a path against the working directory
Abs(wd, p) == IF IsSep(p[1]) THEN Clean(p) ELSE Clean(wd \o <<"/">> \o p)

IsDirAt(f, ap) == ap \in DOMAIN f /\ f[ap].kind = "dir"

\* ------------------------------------------------------------------------
\* State
\* ------------------------------------------------------------------------
VARIABLES
  inv,   \* per invocation of Zip: its locals, handles, result and event log
  fs,    \* the file system
  cwd,   \* the working directory of the process
  fs0    \* the file system before the invocation (history)

vars == <<inv, fs, cwd, fs0>>

Procs == {1, 2}

Variants == {"zipper", "part000"}

RECURSIVE SeqsUpTo(_)
SeqsUpTo(n) ==
  IF n = 0 THEN {<<>>}
  ELSE LET S == SeqsUpTo(n - 1)
       IN S \cup {Append(s, c) : s \in {t \in S : Len(t) = n - 1}, c \in Chars}

Inputs == SeqsUpTo(MaxLen)

NewWriter == [entries |-> <<>>, closed |-> FALSE, ok |-> FALSE]

Start(v, p, st) ==
  [variant |-> v, in0 |-> p, inPath |-> p, dstPath |-> <<>>, files |-> <<>>,
   idx |-> 0, pc |-> st, completed |-> FALSE, ret |-> <<>>, err |-> "nil",
   failedAt |-> "none", failPos |-> 0, zipFileOpen |-> FALSE, srcOpen |-> <<>>,
   zw |-> NewWriter, trace |-> <<>>, orphan |-> EmptyContent,
   wrote |-> FALSE, seenCreate |-> {}, seenRemove |-> {}, truncated |-> {},
   seenWrite |-> {}]

Init ==
  /\ fs \in Trees
  /\ fs0 = fs
  /\ cwd \in {w \in WorkDirs : IsDirAt(fs, w)}
  /\ \E v \in Variants, p \in Inputs :
       inv = [i \in Procs |-> IF i = 1 THEN Start(v, p, "start")
                                       ELSE Start("zipper", <<>>, "off")]

L(i) == inv[i]

Set(i, r) == inv' = [inv EXCEPT ![i] = r]

Log(i, op, path) == Append(L(i).trace, <<op, path>>)

HasOp(i, op) == \E k \in 1..Len(L(i).trace) : L(i).trace[k][1] = op

\* history: the invocation's writer has written to the archive file, and
\* which invocations had done so before it
Wrote(r) == [r EXCEPT !.wrote = TRUE, !.seenWrite = {j \in Procs : L(j).wrote}]

\* ------------------------------------------------------------------------
\* Helpers shared by the two variants
\* ------------------------------------------------------------------------
IsDotOrDotDot(p) == p = <<".">> \/ p = <<".", ".">>

\* a validation that only rejects an empty base name
BadBase_EmptyOnly(d) == d = <<>>

BadBase(d) == d = <<>> \/ d = <<".">> \/ d = <<".", ".">>

ZipName(d) == d \o <<".zip">>

\* filepath.WalkDir with the callback of Zip: every non-directory below path,
\* directories read in lexical order, depth first
RECURSIVE WalkDir(_, _, _)
RECURSIVE WalkChildren(_, _, _, _)
WalkDir(f, wd, path) ==
  IF IsDirAt(f, Abs(wd, path)) THEN WalkChildren(f, wd, path, 1) ELSE <<path>>

WalkChildren(f, wd, path, k) ==
  IF k > Len(Names) THEN <<>>
  ELSE LET child == Join(path, Names[k])
       IN (IF Abs(wd, child) \in DOMAIN f THEN WalkDir(f, wd, child) ELSE <<>>)
          \o WalkChildren(f, wd, path, k + 1)

\* a creation that leaves the bytes of an existing file in place
OsCreate_NoTruncate(f, ap) ==
  IF ap \in DOMAIN f THEN f ELSE (ap :> [kind |-> "file", data |-> EmptyContent]) @@ f

\* os.Create: a new empty file, or the existing file truncated
OsCreate(f, ap) == (ap :> [kind |-> "file", data |-> EmptyContent]) @@ f

\* a removal that sweeps every archive of the working directory along
OsRemove_EveryArchive(f, ap) ==
  [p \in {q \in DOMAIN f : q # ap /\ q[Len(q)] # ".zip"} |-> f[p]]

OsRemove(f, ap) == [p \in DOMAIN f \ {ap} |-> f[p]]

\* what a read of the open source file yields: the bytes of the file, which
\* are those it had when it was unlinked if its name has been removed since
ReadFile(f, ap, orphan) == IF ap \in DOMAIN f THEN f[ap].data ELSE orphan

\* the length of a file, a stored entry counted as header, name and body, the
\* central directory as one record and the names
RECURSIVE Size(_)
RECURSIVE EntriesSize(_)
RECURSIVE NamesSize(_)
Size(d) ==
  Len(d.raw) + EntriesSize(d.entries)
  + (IF d.sealed THEN 1 + NamesSize(d.entries) ELSE 0) + d.tail

EntriesSize(es) ==
  IF es = <<>> THEN 0
  ELSE 1 + Len(es[1].name) + Size(es[1].body) + EntriesSize(Tail(es))

NamesSize(es) ==
  IF es = <<>> THEN 0 ELSE Len(es[1].name) + NamesSize(Tail(es))

\* the buffered writer reaches the file only when the zip writer is closed
\* (the modelled files are smaller than the buffer): entries plus directory
\* The handle writes from offset 0 of the file it created: bytes the file
\* holds beyond the written ones (of another writer of the same file) stay.
\* A write through a handle whose name has been removed reaches no name.
Flush(f, ap, entries, sealed) ==
  IF ap \in DOMAIN f
    THEN LET new == [raw |-> <<>>, entries |-> entries, sealed |-> sealed, tail |-> 0]
             old == Size(f[ap].data)
         IN [f EXCEPT ![ap].data =
               [new EXCEPT !.tail = IF old > Size(new) THEN old - Size(new) ELSE 0]]
    ELSE f

\* os.Remove by invocation i, whose record becomes r: the name goes, and an
\* invocation that holds the file open for reading keeps its bytes
Unlink(i, r, ap) ==
  [j \in DOMAIN inv |->
     IF j = i THEN r
     ELSE IF /\ inv[j].pc \in {"entry", "copy"}
             /\ Abs(cwd, inv[j].files[inv[j].idx + 1]) = ap
       THEN [inv[j] EXCEPT !.orphan = fs[ap].data]
       ELSE inv[j]]

SetBody(entries, body) ==
  [entries EXCEPT ![Len(entries)].body = body]

RECURSIVE CloseEvents(_)
CloseEvents(open) ==
  IF open = <<>> THEN <<>>
  ELSE <<<<"closeSrc", open[Len(open)]>>>> \o CloseEvents(SubSeq(open, 1, Len(open) - 1))

Fail(r, stage, e) ==
  [r EXCEPT !.ret = <<>>, !.err = e, !.failedAt = stage, !.failPos = Len(r.trace)]

\* ------------------------------------------------------------------------
\* Zip of src/zipper.go
\* ------------------------------------------------------------------------
Z_Validate(i) ==
  /\ L(i).variant = "zipper" /\ L(i).pc = "start"
  /\ LET p == Clean(L(i).in0)
         d == Base(p)
     IN IF IsDotOrDotDot(p) \/ BadBase(d)
          THEN Set(i, [Fail(L(i), "validate", "invalid path") EXCEPT !.inPath = p, !.pc = "done"])
          ELSE Set(i, [L(i) EXCEPT !.inPath = p, !.dstPath = d, !.pc = "walk"])
  /\ UNCHANGED <<fs, cwd, fs0>>

\* a walk that creates the destination before discovery and leaves it behind
Z_Walk_CreatesFirst(i) ==
  /\ L(i).variant = "zipper" /\ L(i).pc = "walk"
  /\ \E ioerr \in BOOLEAN :
       LET r == [L(i) EXCEPT !.trace = Log(i, "walk", L(i).inPath)]
       IN IF ioerr \/ Abs(cwd, L(i).inPath) \notin DOMAIN fs
            THEN /\ Set(i, [Fail(r, "walk", "walk error") EXCEPT !.pc = "done"])
                 /\ fs' = OsCreate(fs, Abs(cwd, ZipName(L(i).dstPath)))
            ELSE /\ Set(i, [r EXCEPT !.files = WalkDir(fs, cwd, L(i).inPath),
                                     !.dstPath = ZipName(L(i).dstPath),
                                     !.pc = "create"])
                 /\ fs' = fs
  /\ UNCHANGED <<cwd, fs0>>

Z_Walk(i) ==
  /\ L(i).variant = "zipper" /\ L(i).pc = "walk"
  /\ \E ioerr \in BOOLEAN :
       LET r == [L(i) EXCEPT !.trace = Log(i, "walk", L(i).inPath)]
       IN IF ioerr \/ Abs(cwd, L(i).inPath) \notin DOMAIN fs
            THEN Set(i, [Fail(r, "walk", "walk error") EXCEPT !.pc = "done"])
            ELSE Set(i, [r EXCEPT !.files = WalkDir(fs, cwd, L(i).inPath),
                                  !.dstPath = ZipName(L(i).dstPath),
                                  !.pc = "create"])
  /\ UNCHANGED <<fs, cwd, fs0>>

Z_Create(i) ==
  /\ L(i).variant = "zipper" /\ L(i).pc = "create"
  /\ \E ioerr \in BOOLEAN :
       LET dst == Abs(cwd, L(i).dstPath)
       IN IF ioerr \/ IsDirAt(fs, dst)
            THEN /\ Set(i, [Fail([L(i) EXCEPT !.trace = Log(i, "createfail", L(i).dstPath)],
                                 "create", "create error") EXCEPT !.pc = "done"])
                 /\ fs' = fs
            ELSE /\ Set(i, [L(i) EXCEPT !.trace = Log(i, "create", L(i).dstPath),
                                        !.zipFileOpen = TRUE, !.completed = FALSE,
                                        !.zw = NewWriter, !.pc = "loop",
                                        !.seenCreate = {j \in Procs : HasOp(j, "create")},
                                        !.seenRemove = {j \in Procs : HasOp(j, "remove")},
                                        !.truncated = {j \in Procs : L(j).wrote}])
                 /\ fs' = OsCreate(fs, dst)
  /\ UNCHANGED <<cwd, fs0>>

Z_Open(i) ==
  /\ L(i).variant = "zipper" /\ L(i).pc = "loop" /\ L(i).idx < Len(L(i).files)
  /\ \E ioerr \in BOOLEAN :
       LET file == L(i).files[L(i).idx + 1]
       IN IF ioerr \/ Abs(cwd, file) \notin DOMAIN fs
            THEN Set(i, [Fail([L(i) EXCEPT !.trace = Log(i, "openfail", file)],
                              "open", "open error") EXCEPT !.pc = "defer_src"])
            ELSE Set(i, [L(i) EXCEPT !.trace = Log(i, "open", file),
                                     !.srcOpen = Append(@, file), !.pc = "entry"])
  /\ UNCHANGED <<fs, cwd, fs0>>

Z_Entry(i) ==
  /\ L(i).variant = "zipper" /\ L(i).pc = "entry"
  /\ \E ioerr \in BOOLEAN :
       LET file == L(i).files[L(i).idx + 1]
       IN IF ioerr
            THEN Set(i, [Fail([L(i) EXCEPT !.trace = Log(i, "entryfail", file)],
                              "entry", "entry error") EXCEPT !.pc = "defer_src"])
            ELSE Set(i, [L(i) EXCEPT !.trace = Log(i, "entry", file),
                                     !.zw.entries = Append(@, [name |-> file, body |-> EmptyContent]),
                                     !.pc = "copy"])
  /\ UNCHANGED <<fs, cwd, fs0>>

Z_Copy(i) ==
  /\ L(i).variant = "zipper" /\ L(i).pc = "copy"
  /\ \E ioerr \in BOOLEAN :
       LET file == L(i).files[L(i).idx + 1]
       IN IF ioerr
            THEN Set(i, [Fail([L(i) EXCEPT !.trace = Log(i, "copyfail", file)],
                              "copy", "copy error") EXCEPT !.pc = "defer_src"])
            ELSE Set(i, [L(i) EXCEPT !.trace = Log(i, "copy", file),
                                     !.zw.entries = SetBody(@, ReadFile(fs, Abs(cwd, file), L(i).orphan)),
                                     !.idx = @ + 1, !.pc = "loop"])
  /\ UNCHANGED <<fs, cwd, fs0>>

\* the loop is over: completed = true; return dstPath, nil
Z_Return(i) ==
  /\ L(i).variant = "zipper" /\ L(i).pc = "loop" /\ L(i).idx = Len(L(i).files)
  /\ Set(i, [L(i) EXCEPT !.completed = TRUE, !.ret = L(i).dstPath, !.err = "nil",
                         !.pc = "defer_src"])
  /\ UNCHANGED <<fs, cwd, fs0>>

\* a writer close forgotten among the deferred calls
Z_DeferCloseSources_SkipsWriter(i) ==
  /\ L(i).variant = "zipper" /\ L(i).pc = "defer_src"
  /\ Set(i, [L(i) EXCEPT !.trace = @ \o CloseEvents(L(i).srcOpen),
                         !.srcOpen = <<>>, !.pc = "defer_file"])
  /\ UNCHANGED <<fs, cwd, fs0>>

\* deferred f.Close() of every source file, last opened first
Z_DeferCloseSources(i) ==
  /\ L(i).variant = "zipper" /\ L(i).pc = "defer_src"
  /\ Set(i, [L(i) EXCEPT !.trace = @ \o CloseEvents(L(i).srcOpen),
                         !.srcOpen = <<>>, !.pc = "defer_zipw"])
  /\ UNCHANGED <<fs, cwd, fs0>>

\* deferred zipw.Close(): its result is discarded
Z_DeferZipwClose(i) ==
  /\ L(i).variant = "zipper" /\ L(i).pc = "defer_zipw"
  /\ \E ioerr \in BOOLEAN, partial \in BOOLEAN :
       LET dst == Abs(cwd, L(i).dstPath)
           r == [L(i) EXCEPT !.trace = Log(i, "zipwClose", L(i).dstPath),
                             !.zw.closed = TRUE, !.pc = "defer_file"]
       IN IF ioerr
            THEN /\ Set(i, IF partial THEN Wrote([r EXCEPT !.zw.ok = FALSE])
                                       ELSE [r EXCEPT !.zw.ok = FALSE])
                 /\ fs' = IF partial THEN Flush(fs, dst, L(i).zw.entries, FALSE) ELSE fs
            ELSE /\ ~partial
                 /\ Set(i, Wrote([r EXCEPT !.zw.ok = TRUE]))
                 /\ fs' = Flush(fs, dst, L(i).zw.entries, TRUE)
  /\ UNCHANGED <<cwd, fs0>>

\* the deferred closure: zipFile.Close(), then os.Remove unless completed,
\* and a panic when the removal fails
Z_DeferCloseFile(i) ==
  /\ L(i).variant = "zipper" /\ L(i).pc = "defer_file"
  /\ \E ioerr \in BOOLEAN :
       LET dst == Abs(cwd, L(i).dstPath)
           r == [L(i) EXCEPT !.trace = Log(i, "closeFile", L(i).dstPath),
                             !.zipFileOpen = FALSE]
       IN IF L(i).completed
            THEN /\ ~ioerr
                 /\ Set(i, [r EXCEPT !.pc = "done"])
                 /\ fs' = fs
            ELSE IF ioerr \/ dst \notin DOMAIN fs
              THEN /\ Set(i, [r EXCEPT !.trace = Append(@, <<"removefail", L(i).dstPath>>),
                                       !.pc = "panicked"])
                   /\ fs' = fs
              ELSE /\ inv' = Unlink(i, [r EXCEPT !.trace = Append(@, <<"remove", L(i).dstPath>>),
                                                   !.pc = "done"], dst)
                   /\ fs' = OsRemove(fs, dst)
  /\ UNCHANGED <<cwd, fs0>>

\* ------------------------------------------------------------------------
\* Zip of src/unnamed/part_000
\* ------------------------------------------------------------------------
P_Validate(i) ==
  /\ L(i).variant = "part000" /\ L(i).pc = "start"
  /\ LET p == Clean(L(i).in0)
         d == Base(p)
     IN IF IsDotOrDotDot(p) \/ BadBase(d)
          THEN Set(i, [Fail(L(i), "validate", "invalid path") EXCEPT !.inPath = p, !.pc = "done"])
          ELSE Set(i, [L(i) EXCEPT !.inPath = p, !.dstPath = ZipName(d), !.pc = "walk"])
  /\ UNCHANGED <<fs, cwd, fs0>>

P_Walk(i) ==
  /\ L(i).variant = "part000" /\ L(i).pc = "walk"
  /\ \E ioerr \in BOOLEAN :
       LET r == [L(i) EXCEPT !.trace = Log(i, "walk", L(i).inPath)]
       IN IF ioerr \/ Abs(cwd, L(i).inPath) \notin DOMAIN fs
            THEN Set(i, [Fail(r, "walk", "walk error") EXCEPT !.pc = "done"])
            ELSE Set(i, [r EXCEPT !.files = WalkDir(fs, cwd, L(i).inPath), !.pc = "create"])
  /\ UNCHANGED <<fs, cwd, fs0>>

P_Create(i) ==
  /\ L(i).variant = "part000" /\ L(i).pc = "create"
  /\ \E ioerr \in BOOLEAN :
       LET dst == Abs(cwd, L(i).dstPath)
       IN IF ioerr \/ IsDirAt(fs, dst)
            THEN /\ Set(i, [Fail([L(i) EXCEPT !.trace = Log(i, "createfail", L(i).dstPath)],
                                 "create", "create error") EXCEPT !.pc = "done"])
                 /\ fs' = fs
            ELSE /\ Set(i, [L(i) EXCEPT !.trace = Log(i, "create", L(i).dstPath),
                                        !.zipFileOpen = TRUE, !.completed = FALSE,
                                        !.zw = NewWriter, !.pc = "loop",
                                        !.seenCreate = {j \in Procs : HasOp(j, "create")},
                                        !.seenRemove = {j \in Procs : HasOp(j, "remove")},
                                        !.truncated = {j \in Procs : L(j).wrote}])
                 /\ fs' = OsCreate(fs, dst)
  /\ UNCHANGED <<cwd, fs0>>

P_Open(i) ==
  /\ L(i).variant = "part000" /\ L(i).pc = "loop" /\ L(i).idx < Len(L(i).files)
  /\ \E ioerr \in BOOLEAN :
       LET file == L(i).files[L(i).idx + 1]
       IN IF ioerr \/ Abs(cwd, file) \notin DOMAIN fs
            THEN Set(i, [Fail([L(i) EXCEPT !.trace = Log(i, "openfail", file)],
                              "open", "open error") EXCEPT !.pc = "defer_file"])
            ELSE Set(i, [L(i) EXCEPT !.trace = Log(i, "open", file),
                                     !.srcOpen = Append(@, file), !.pc = "entry"])
  /\ UNCHANGED <<fs, cwd, fs0>>

\* filepath.Rel, then zipw.Create(relPath); f.Close() before either error return
P_Entry(i) ==
  /\ L(i).variant = "part000" /\ L(i).pc = "entry"
  /\ \E ioerr \in BOOLEAN :
       LET file == L(i).files[L(i).idx + 1]
           rel == Rel(L(i).inPath, file)
           closed == [L(i) EXCEPT !.srcOpen = SubSeq(@, 1, Len(@) - 1)]
       IN IF ~rel.ok
            THEN Set(i, [Fail([closed EXCEPT !.trace = Log(i, "closeSrc", file)],
                              "rel", "rel error") EXCEPT !.pc = "defer_file"])
          ELSE IF ioerr
            THEN Set(i, [Fail([closed EXCEPT !.trace = Log(i, "entryfail", rel.path)
                                                       \o <<<<"closeSrc", file>>>>],
                              "entry", "entry error") EXCEPT !.pc = "defer_file"])
          ELSE Set(i, [L(i) EXCEPT !.trace = Log(i, "entry", rel.path),
                                   !.zw.entries = Append(@, [name |-> rel.path, body |-> EmptyContent]),
                                   !.pc = "copy"])
  /\ UNCHANGED <<fs, cwd, fs0>>

\* a copy whose error return forgets f.Close()
P_Copy_LeaksOnError(i) ==
  /\ L(i).variant = "part000" /\ L(i).pc = "copy"
  /\ \E ioerr \in BOOLEAN :
       LET file == L(i).files[L(i).idx + 1]
           closed == [L(i) EXCEPT !.srcOpen = SubSeq(@, 1, Len(@) - 1)]
       IN IF ioerr
            THEN Set(i, [Fail([L(i) EXCEPT !.trace = Log(i, "copyfail", file)],
                              "copy", "copy error") EXCEPT !.pc = "defer_file"])
            ELSE Set(i, [closed EXCEPT !.trace = Log(i, "copy", file) \o <<<<"closeSrc", file>>>>,
                                       !.zw.entries = SetBody(@, ReadFile(fs, Abs(cwd, file), L(i).orphan)),
                                       !.idx = @ + 1, !.pc = "loop"])
  /\ UNCHANGED <<fs, cwd, fs0>>

\* io.Copy(zw, f), then f.Close() whatever the outcome
P_Copy(i) ==
  /\ L(i).variant = "part000" /\ L(i).pc = "copy"
  /\ \E ioerr \in BOOLEAN :
       LET file == L(i).files[L(i).idx + 1]
           closed == [L(i) EXCEPT !.srcOpen = SubSeq(@, 1, Len(@) - 1)]
       IN IF ioerr
            THEN Set(i, [Fail([closed EXCEPT !.trace = Log(i, "copyfail", file)
                                                       \o <<<<"closeSrc", file>>>>],
                              "copy", "copy error") EXCEPT !.pc = "defer_file"])
            ELSE Set(i, [closed EXCEPT !.trace = Log(i, "copy", file) \o <<<<"closeSrc", file>>>>,
                                       !.zw.entries = SetBody(@, ReadFile(fs, Abs(cwd, file), L(i).orphan)),
                                       !.idx = @ + 1, !.pc = "loop"])
  /\ UNCHANGED <<fs, cwd, fs0>>

\* return zipw.Close() at the end of the loop; on success completed = true
\* and return dstPath, nil
P_Finalize(i) ==
  /\ L(i).variant = "part000" /\ L(i).pc = "loop" /\ L(i).idx = Len(L(i).files)
  /\ \E ioerr \in BOOLEAN, partial \in BOOLEAN :
       LET dst == Abs(cwd, L(i).dstPath)
           r == [L(i) EXCEPT !.trace = Log(i, "zipwClose", L(i).dstPath),
                             !.zw.closed = TRUE, !.pc = "defer_file"]
       IN IF ioerr
            THEN /\ Set(i, Fail(IF partial THEN Wrote([r EXCEPT !.zw.ok = FALSE])
                                            ELSE [r EXCEPT !.zw.ok = FALSE],
                                 "finalize", "finalize error"))
                 /\ fs' = IF partial THEN Flush(fs, dst, L(i).zw.entries, FALSE) ELSE fs
            ELSE /\ ~partial
                 /\ Set(i, Wrote([r EXCEPT !.zw.ok = TRUE, !.completed = TRUE,
                                           !.ret = L(i).dstPath, !.err = "nil"]))
                 /\ fs' = Flush(fs, dst, L(i).zw.entries, TRUE)
  /\ UNCHANGED <<cwd, fs0>>

\* the deferred closure: zipFile.Close(), then os.Remove unless completed;
\* the result of os.Remove is discarded
P_DeferCloseFile(i) ==
  /\ L(i).variant = "part000" /\ L(i).pc = "defer_file"
  /\ \E ioerr \in BOOLEAN :
       LET dst == Abs(cwd, L(i).dstPath)
           r == [L(i) EXCEPT !.trace = Log(i, "closeFile", L(i).dstPath),
                             !.zipFileOpen = FALSE, !.pc = "done"]
       IN IF L(i).completed
            THEN /\ ~ioerr
                 /\ Set(i, r)
                 /\ fs' = fs
            ELSE IF ioerr \/ dst \notin DOMAIN fs
              THEN /\ Set(i, [r EXCEPT !.trace = Append(@, <<"removefail", L(i).dstPath>>)])
                   /\ fs' = fs
              ELSE /\ inv' = Unlink(i, [r EXCEPT !.trace = Append(@, <<"remove", L(i).dstPath>>)], dst)
                   /\ fs' = OsRemove(fs, dst)
  /\ UNCHANGED <<cwd, fs0>>

\* ------------------------------------------------------------------------
\* Specification
\* ------------------------------------------------------------------------
Next ==
  \/ \E i \in Procs : Z_Validate(i)
  \/ \E i \in Procs : Z_Walk(i)
  \/ \E i \in Procs : Z_Create(i)
  \/ \E i \in Procs : Z_Open(i)
  \/ \E i \in Procs : Z_Entry(i)
  \/ \E i \in Procs : Z_Copy(i)
  \/ \E i \in Procs : Z_Return(i)
  \/ \E i \in Procs : Z_DeferCloseSources(i)
  \/ \E i \in Procs : Z_DeferZipwClose(i)
  \/ \E i \in Procs : Z_DeferCloseFile(i)
  \/ \E i \in Procs : P_Validate(i)
  \/ \E i \in Procs : P_Walk(i)
  \/ \E i \in Procs : P_Create(i)
  \/ \E i \in Procs : P_Open(i)
  \/ \E i \in Procs : P_Entry(i)
  \/ \E i \in Procs : P_Copy(i)
  \/ \E i \in Procs : P_Finalize(i)
  \/ \E i \in Procs : P_DeferCloseFile(i)

Spec == Init /\ [][Next]_vars

\* Two invocations of the same Zip running in one process (one working
\* directory), their steps interleaved
ConcInputs ==
  {<<"a">>, <<"/", "a">>, <<"a", "/", "a">>, <<"b">>}

InitConc ==
  /\ fs = TreeNested
  /\ fs0 = fs
  /\ cwd \in {Root, <<"/", "a">>}
  /\ \E v \in Variants, p \in ConcInputs, q \in ConcInputs :
       inv = [i \in Procs |-> Start(v, IF i = 1 THEN p ELSE q, "start")]

SpecConc == InitConc /\ [][Next]_vars

TypeOK ==
  /\ \A i \in Procs : L(i).pc \in {"off", "start", "walk", "create", "loop", "entry", "copy",
                                  "defer_src", "defer_zipw", "defer_file", "done", "panicked"}
  /\ \A i \in Procs : Len(L(i).srcOpen) <= Len(L(i).files)

\* ------------------------------------------------------------------------
\* Properties
\* ------------------------------------------------------------------------
Ran(i) == L(i).pc \notin {"off", "start"}

Returned(i) == L(i).pc = "done"

ReturnedOk(i) == L(i).pc = "done" /\ L(i).err = "nil"

DstAbs(i) == Abs(cwd, L(i).dstPath)

RootAbs(i) == Abs(cwd, L(i).inPath)

IsUnder(p, r) ==
  IF r = Root THEN Len(p) > 1
  ELSE Len(p) > Len(r) + 1 /\ SubSeq(p, 1, Len(r) + 1) = r \o <<"/">>

RegularUnder(f, r) == {p \in DOMAIN f : f[p].kind = "file" /\ IsUnder(p, r)}

\* the part of the absolute path f below the directory r
Below(f, r) == IF r = Root THEN SubSeq(f, 2, Len(f)) ELSE SubSeq(f, Len(r) + 2, Len(f))

\* C1: when a per-file step (open, entry creation, copy) fails after the
\* archive was created, Zip returns an error, opens no further file and
\* creates no further entry, the archive handle is closed and the archive
\* file is gone when Zip returns.
C1_PerFileFailureLeavesNoArchive ==
  \A i \in Procs :
    (Returned(i) /\ L(i).failedAt \in {"open", "entry", "copy"}) =>
      /\ L(i).err # "nil" /\ L(i).ret = <<>>
      /\ \A k \in (L(i).failPos + 1)..Len(L(i).trace) : L(i).trace[k][1] \notin {"open", "entry"}
      /\ ~L(i).zipFileOpen
      /\ DstAbs(i) \notin DOMAIN fs

\* C2: Zip returns (path, nil) only after the archive writer has been closed
\* successfully, and a failed close of the writer makes Zip return an error.
C2_SuccessOnlyAfterFinalize ==
  \A i \in Procs :
    Returned(i) =>
      /\ (L(i).err = "nil" => L(i).zw.closed /\ L(i).zw.ok)
      /\ (L(i).zw.closed /\ ~L(i).zw.ok => L(i).err # "nil")

\* C3: when path discovery fails Zip returns the error before the
\* destination is created: no creation was attempted and the file system is
\* as it was before the call.
C3_DiscoveryFailureCreatesNothing ==
  \A i \in Procs :
    (Returned(i) /\ L(i).failedAt = "walk") =>
      /\ L(i).err # "nil" /\ L(i).ret = <<>>
      /\ ~HasOp(i, "create") /\ ~HasOp(i, "createfail")
      /\ ~L(i).zipFileOpen
      /\ fs = fs0

C3_Witness ==
  \E i \in Procs :
    /\ Returned(i) /\ L(i).failedAt = "walk"
    /\ RootAbs(i) \notin DOMAIN fs
    /\ Abs(cwd, ZipName(Base(L(i).inPath))) \notin DOMAIN fs

\* C4: an input whose cleaned form is "." or "..", or whose base name after
\* cleaning is "." or "..", is rejected with "invalid path" and an empty
\* archive path, with no file system access at all.
C4_InvalidPathNoAccess ==
  \A i \in Procs :
    LET p == Clean(L(i).in0)
    IN (Ran(i) /\ (\/ p \in {<<".">>, <<".", ".">>}
                   \/ Base(p) \in {<<".">>, <<".", ".">>}
                   \/ L(i).in0 \in {<<>>, <<".", "/">>, <<"a", "/", ".", ".">>,
                                    <<".", ".", "/", ".", ".">>})) =>
         /\ L(i).pc = "done"
         /\ L(i).err = "invalid path" /\ L(i).ret = <<>>
         /\ L(i).trace = <<>>
         /\ ~L(i).zipFileOpen /\ L(i).srcOpen = <<>>
         /\ fs = fs0

C4_Witness ==
  \E i \in Procs :
    /\ L(i).in0 = <<".", ".", "/", ".", ".">>
    /\ L(i).pc = "done" /\ L(i).err = "invalid path" /\ L(i).trace = <<>>

\* C5: a successful Zip returns base(clean(inputPath)) + ".zip", a name with
\* no directory component (a file directly in the working directory).
C5_ArchiveNameInWorkDir ==
  \A i \in Procs :
    ReturnedOk(i) =>
      /\ L(i).ret = Base(Clean(L(i).in0)) \o <<".zip">>
      /\ \A k \in 1..Len(L(i).ret) : ~IsSep(L(i).ret[k])

\* C6: an input whose cleaned form is the root path is rejected with
\* "invalid path" before any file system access.
C6_RootRejected ==
  \A i \in Procs :
    (Ran(i) /\ Clean(L(i).in0) = Root) =>
      /\ L(i).pc = "done"
      /\ L(i).err = "invalid path"
      /\ L(i).trace = <<>>

\* C7: after a successful Zip of a directory the archive on disk is readable
\* and its entries are in one-to-one correspondence with the regular files
\* under the input root, each entry holding its file's bytes.
C7_EntriesMatchRegularFiles ==
  \A i \in Procs :
    (ReturnedOk(i) /\ IsDirAt(fs0, RootAbs(i))) =>
      /\ Abs(cwd, L(i).ret) \in DOMAIN fs
      /\ LET a == fs[Abs(cwd, L(i).ret)].data
             files == RegularUnder(fs0, RootAbs(i))
             n == Len(a.entries)
         IN /\ a.sealed
            /\ n = Cardinality(files)
            /\ \E g \in [1..n -> files] :
                 /\ \A j, k \in 1..n : g[j] = g[k] => j = k
                 /\ \A k \in 1..n : a.entries[k].body = fs0[g[k]].data

\* C8: for a directory input, the name of every archive entry is the path of
\* its file relative to the input root.
C8_EntryNameIsRelative ==
  \A i \in Procs :
    \A k \in 1..Len(L(i).trace) :
      (L(i).trace[k][1] = "entry" /\ IsDirAt(fs0, RootAbs(i))) =>
        /\ k > 1 /\ L(i).trace[k - 1][1] = "open"
        /\ L(i).trace[k][2] = Below(Abs(cwd, L(i).trace[k - 1][2]), RootAbs(i))

\* C9: when the input is a single regular file, the archive has exactly one
\* entry and its name is the bare file name base(inputPath).
C9_SingleFileEntryIsBaseName ==
  \A i \in Procs :
    (ReturnedOk(i) /\ RootAbs(i) \in DOMAIN fs0 /\ fs0[RootAbs(i)].kind = "file") =>
      /\ Len(L(i).zw.entries) = 1
      /\ L(i).zw.entries[1].name = Base(L(i).inPath)

\* C10: after Zip returns (path, nil) a file exists at the returned path, it
\* is a finalized archive, its handle is closed and no removal was run.
C10_SuccessRetainsFinalizedArchive ==
  \A i \in Procs :
    ReturnedOk(i) =>
      /\ Abs(cwd, L(i).ret) \in DOMAIN fs
      /\ fs[Abs(cwd, L(i).ret)].kind = "file"
      /\ fs[Abs(cwd, L(i).ret)].data.sealed
      /\ ~L(i).zipFileOpen
      /\ ~HasOp(i, "remove") /\ ~HasOp(i, "removefail")

Exited(i) == L(i).pc \in {"done", "panicked"}

\* the positions of the events op in the log of invocation i
OpsAt(i, op) == {k \in 1..Len(L(i).trace) : L(i).trace[k][1] = op}

\* C11: Zip creates at most one file, the destination archive, and none on
\* a failing invocation, and never truncates, overwrites or deletes a file
\* of the discovered file set, wherever the working directory lies and
\* whatever already exists at the destination name.
C11_OnlyDestinationTouched ==
  /\ \A i \in Procs :
       \A k \in 1..Len(L(i).files) :
         LET f == Abs(cwd, L(i).files[k])
         IN f \in DOMAIN fs /\ fs[f] = fs0[f]
  /\ (DOMAIN fs \ DOMAIN fs0) \subseteq {DstAbs(i) : i \in {j \in Procs : HasOp(j, "create")}}
  /\ \A i \in Procs :
       (Returned(i) /\ L(i).err # "nil") => DOMAIN fs \subseteq DOMAIN fs0

\* C12: after a failure that follows the creation of the archive, once the
\* rollback has removed the archive the file system is as it was before the
\* call, also when a file already existed at the destination path.
C12_RollbackRestoresDisk ==
  \A i \in Procs :
    (Returned(i) /\ L(i).err # "nil" /\ HasOp(i, "create") /\ HasOp(i, "remove")) =>
      fs = fs0

\* C13: when the deletion of the partial archive fails during rollback, the
\* failure is surfaced (a panic or a reported removal error): Zip never
\* returns only the original error with the partial archive left on disk.
C13_RemoveFailureSurfaced ==
  \A i \in Procs :
    (Exited(i) /\ HasOp(i, "removefail")) =>
      L(i).pc = "panicked" \/ L(i).err = "remove error"

\* C14: for an input tree that holds directories only, no per-file step can
\* fail, and a Zip that reports success leaves a finalized archive with
\* zero entries at the returned path.
C14_EmptyTreeEmptyArchive ==
  \A i \in Procs :
    (Returned(i) /\ L(i).failedAt \notin {"validate", "walk", "create", "finalize"}
       /\ IsDirAt(fs0, RootAbs(i))
       /\ \A p \in DOMAIN fs0 : IsUnder(p, RootAbs(i)) => fs0[p].kind = "dir") =>
      /\ L(i).err = "nil"
      /\ Abs(cwd, L(i).ret) \in DOMAIN fs
      /\ fs[Abs(cwd, L(i).ret)].data.sealed
      /\ fs[Abs(cwd, L(i).ret)].data.entries = <<>>

\* C16: each source file is closed before the next one is opened: at most
\* one source file handle is open at any time.
C16_AtMostOneSourceOpen ==
  \A i \in Procs : Len(L(i).srcOpen) <= 1

\* C17: on every exit path every handle the invocation opened, each source
\* file and the destination archive, has been closed when Zip returns.
C17_NoHandleLeak ==
  \A i \in Procs :
    Exited(i) =>
      /\ ~L(i).zipFileOpen
      /\ L(i).srcOpen = <<>>
      /\ \A k \in OpsAt(i, "open") :
           \E c \in OpsAt(i, "closeSrc") : c > k /\ L(i).trace[c][2] = L(i).trace[k][2]
      /\ \A k \in OpsAt(i, "create") : \E c \in OpsAt(i, "closeFile") : c > k

C17_Witness ==
  \E i \in Procs :
    /\ Returned(i) /\ L(i).failedAt = "copy" /\ L(i).idx >= 1
    /\ L(i).variant = "part000"
    /\ Cardinality(OpsAt(i, "closeSrc")) = 2
    /\ ~L(i).zipFileOpen /\ L(i).srcOpen = <<>>

\* C19: in Zip of src/zipper.go, after the archive was created the deferred
\* calls run in this order on every exit path: every source file is closed,
\* then the zip writer (once, while the archive file is still open and on
\* disk), then the archive file, and only then, and only when the
\* invocation did not complete, the archive is removed.
C19_DeferOrder ==
  \A i \in Procs :
    L(i).variant = "zipper" =>
      /\ L(i).pc = "defer_zipw" =>
           L(i).srcOpen = <<>> /\ L(i).zipFileOpen /\ DstAbs(i) \in DOMAIN fs
      /\ (Exited(i) /\ HasOp(i, "create")) =>
           /\ Cardinality(OpsAt(i, "zipwClose")) = 1
           /\ Cardinality(OpsAt(i, "closeFile")) = 1
           /\ \A z \in OpsAt(i, "zipwClose"), c \in OpsAt(i, "closeFile") :
                /\ z < c
                /\ \A k \in OpsAt(i, "open") \cup OpsAt(i, "closeSrc") : k < z
                /\ \A k \in OpsAt(i, "remove") \cup OpsAt(i, "removefail") : k > c
           /\ Cardinality(OpsAt(i, "closeSrc")) = Cardinality(OpsAt(i, "open"))
           /\ (HasOp(i, "remove") \/ HasOp(i, "removefail")) <=> ~L(i).completed

C19_Witness ==
  \E i \in Procs :
    /\ L(i).variant = "zipper" /\ Returned(i)
    /\ L(i).failedAt = "copy" /\ L(i).idx >= 1
    /\ HasOp(i, "remove")
    /\ Cardinality(OpsAt(i, "closeSrc")) = 2

\* ------------------------------------------------------------------------
\* Two invocations at once (SpecConc)
\* ------------------------------------------------------------------------
\* the root and the destination an invocation resolves to, from its argument
Root0(i) == Abs(cwd, Clean(L(i).in0))

Dst0(i) == Abs(cwd, Base(Clean(L(i).in0)) \o <<".zip">>)

InTree(p, r) == p = r \/ IsUnder(p, r)

\* what the invocation's own steps leave at its destination
OwnArchive(i) ==
  IF L(i).wrote
    THEN [raw |-> <<>>, entries |-> L(i).zw.entries, sealed |-> L(i).zw.ok, tail |-> 0]
    ELSE EmptyContent

\* invocation i sees and leaves what it sees and leaves when it runs alone:
\* it discovers the files of the tree as it was, copies their bytes as they
\* were, and its destination holds what its own steps put there
RunsAsAlone(i) ==
  /\ (HasOp(i, "walk") /\ L(i).failedAt # "walk") =>
        L(i).files = WalkDir(fs0, cwd, L(i).inPath)
  /\ \A k \in 1..L(i).idx :
        LET f == Abs(cwd, L(i).files[k])
        IN f = Dst0(i) \/ (f \in DOMAIN fs0 /\ L(i).zw.entries[k].body = fs0[f].data)
  /\ IF HasOp(i, "create") /\ ~HasOp(i, "remove")
       THEN /\ Dst0(i) \in DOMAIN fs
            /\ fs[Dst0(i)] = [kind |-> "file", data |-> OwnArchive(i)]
       ELSE IF HasOp(i, "remove") THEN Dst0(i) \notin DOMAIN fs
       ELSE /\ Dst0(i) \in DOMAIN fs <=> Dst0(i) \in DOMAIN fs0
            /\ Dst0(i) \in DOMAIN fs => fs[Dst0(i)] = fs0[Dst0(i)]

OthersUntouched ==
  \A p \in (DOMAIN fs \cup DOMAIN fs0) \ {Dst0(i) : i \in Procs} :
    p \in DOMAIN fs /\ p \in DOMAIN fs0 /\ fs[p] = fs0[p]

\* C15 as stated: two invocations with different input paths (different
\* roots) write distinct destination files, and each sees and leaves what it
\* sees and leaves alone.
C15_DifferentInputsIndependent ==
  \A i \in Procs : \A j \in Procs \ {i} :
    Root0(i) # Root0(j) =>
      /\ (HasOp(i, "create") /\ HasOp(j, "create")) => DstAbs(i) # DstAbs(j)
      /\ RunsAsAlone(i)
      /\ OthersUntouched

\* C15, amended: two invocations whose destinations differ, neither
\* destination lying in the other's input tree, are independent: nothing but
\* the two destinations changes on disk, and each invocation discovers,
\* copies and leaves at its destination what it does when it runs alone.
C15_DisjointInvocationsIndependent ==
  \A i \in Procs : \A j \in Procs \ {i} :
    (/\ Dst0(i) # Dst0(j)
     /\ ~InTree(Dst0(j), Root0(i))
     /\ ~InTree(Dst0(i), Root0(j))) =>
      /\ RunsAsAlone(i)
      /\ OthersUntouched

\* the two invocations overlap in time (each created before the other
\* wrote), one succeeds and leaves its archive, the other rolls back
C15_Witness ==
  /\ Dst0(1) # Dst0(2)
  /\ ~InTree(Dst0(2), Root0(1)) /\ ~InTree(Dst0(1), Root0(2))
  /\ ReturnedOk(1) /\ L(1).zw.ok /\ L(1).idx >= 1
  /\ 2 \in L(1).seenCreate
  /\ Returned(2) /\ HasOp(2, "remove") /\ L(2).idx >= 1
  /\ Dst0(1) \in DOMAIN fs /\ fs[Dst0(1)].data.sealed
  /\ Dst0(2) \notin DOMAIN fs

\* the invocations i and j resolve to one destination and both have run to
\* their end
SameDst(i, j) == i # j /\ Dst0(i) = Dst0(j) /\ Exited(i) /\ Exited(j)

Max0(n) == IF n > 0 THEN n ELSE 0

\* what two writes and two truncations of one file leave, w having written
\* last: w's archive, then the rest of o's bytes if o wrote after w's
\* creation and wrote more; nothing if o truncated the file after w's write
LeftBy(w, o) ==
  IF w \in L(o).truncated THEN EmptyContent
  ELSE [OwnArchive(w) EXCEPT !.tail =
          IF L(o).wrote /\ o \notin L(w).truncated
            THEN Max0(Size(OwnArchive(o)) - Size(OwnArchive(w))) ELSE 0]

====
